---- MODULE Spec2Model ----
(***************************************************************************)
(* Model of the SSP dialect's dependence codec (OperationOp::parse, print, *)
(* verify in lib/Dialect/SSP/SSPOps.cpp) and of the conversion between SSP *)
(* IR and the scheduling Problem (loadProblem, saveProblem and the         *)
(* property helpers in include/circt/Dialect/SSP/Utilities.h).             *)
(***************************************************************************)
EXTENDS Integers, Sequences, FiniteSets, TLC

(***************************************************************************)
(* Bounds of the model.                                                    *)
(***************************************************************************)
\* largest number of SSA operands of an operation given to the codec
MaxInputs == 2
\* longest `dependences` array / entry list given to the codec
MaxRecs == 2
\* width in bits of `unsigned` and `int`, reduced from 32
IntWidth == 4

(***************************************************************************)
(* Attributes.  A C++ attribute handle may be null; an ArrayAttr is        *)
(* modelled as [present, items], the null handle having present = FALSE.   *)
(***************************************************************************)
NullArray == [present |-> FALSE, items |-> <<>>]
Arr(s) == [present |-> TRUE, items |-> s]
\* the null FlatSymbolRefAttr / StringAttr
NoSym == ""

\* property lists carried by dependence records of the codec inputs
CodecProps == {NullArray, Arr(<<>>), Arr(<<"p">>)}
MaxIdx == MaxInputs + MaxRecs

\* an `unsigned` value converted to `int`, as in `int idx = dep.getOperandIdx()`
IntOf(u) == IF u < 2^(IntWidth - 1) THEN u ELSE u - 2^IntWidth
\* ++operandIdx on an `unsigned`
Incr(u) == (u + 1) % 2^IntWidth
\* the operandIdx values of the codec inputs: the small ones and the two
\* that convert to INT_MIN and to -1
CodecIdxs == (0..MaxIdx) \cup {2^(IntWidth - 1), 2^IntWidth - 1}

\* DependenceAttr(operandIdx, sourceRef, properties)
DependenceAttr(i, s, p) == [operandIdx |-> i, sourceRef |-> s, properties |-> p]
CodecRecords ==
    {DependenceAttr(i, s, p) : i \in CodecIdxs, s \in {NoSym, "a"}, p \in CodecProps}

RecsOf(attr) == IF attr.present THEN attr.items ELSE <<>>
SeqsUpTo(S, n) == UNION {[1..k -> S] : k \in 0..n}

(***************************************************************************)
(* OperationOp::verify                                                     *)
(***************************************************************************)
\* one iteration of the loop over the dependence attributes; st is
\* [ok, lastIdx], the early return being ok = FALSE
VerifyStepDupOk(nOperands, st, dep) ==
    LET idx == IntOf(dep.operandIdx) IN
    IF ~st.ok THEN st
    ELSE IF dep.sourceRef = NoSym
         THEN IF idx >= nOperands \/ idx < st.lastIdx
              THEN [ok |-> FALSE, lastIdx |-> st.lastIdx]
              ELSE [ok |-> TRUE, lastIdx |-> idx]
         ELSE IF idx < nOperands
                 \/ ~((idx = st.lastIdx + 1) \/ (idx > st.lastIdx /\ idx = nOperands))
              THEN [ok |-> FALSE, lastIdx |-> st.lastIdx]
              ELSE [ok |-> TRUE, lastIdx |-> idx]

VerifyStep(nOperands, st, dep) ==
    LET idx == IntOf(dep.operandIdx) IN
    IF ~st.ok THEN st
    ELSE IF dep.sourceRef = NoSym
         THEN IF idx >= nOperands \/ idx <= st.lastIdx
              THEN [ok |-> FALSE, lastIdx |-> st.lastIdx]
              ELSE [ok |-> TRUE, lastIdx |-> idx]
         ELSE IF idx < nOperands
                 \/ ~((idx = st.lastIdx + 1) \/ (idx > st.lastIdx /\ idx = nOperands))
              THEN [ok |-> FALSE, lastIdx |-> st.lastIdx]
              ELSE [ok |-> TRUE, lastIdx |-> idx]

RECURSIVE VerifyLoop(_, _, _)
VerifyLoop(nOperands, st, deps) ==
    IF deps = <<>> THEN st
    ELSE VerifyLoop(nOperands, VerifyStep(nOperands, st, Head(deps)), Tail(deps))

\* TRUE iff verify() returns success()
verify(nOperands, dependences) ==
    IF ~dependences.present THEN TRUE
    ELSE VerifyLoop(IntOf(nOperands), [ok |-> TRUE, lastIdx |-> -1], dependences.items).ok

(***************************************************************************)
(* OperationOp::parse.  The text of the parenthesized list is a sequence   *)
(* of entries [sym, tok, items]: sym is the symbol name of a reference     *)
(* entry (NoSym for an SSA operand), tok says what follows the source:     *)
(* "none", an "array" attribute with the given items, or "junk" that is no *)
(* attribute.                                                              *)
(***************************************************************************)
Entry(s, t, it) == [sym |-> s, tok |-> t, items |-> it]
EntryProps(e) == IF e.tok = "array" THEN Arr(e.items) ELSE NullArray

\* the lambda parseDependenceSourceWithAttrDict, called once per entry; st is
\* [ok, operandIdx, nUnresolved, deps]
ParseEntryCountStored(st, e) ==
    LET properties == EntryProps(e)
        stored == e.sym # NoSym \/ properties.present IN
    IF ~st.ok THEN st
    ELSE IF e.tok = "junk" THEN [st EXCEPT !.ok = FALSE]
    ELSE [ok |-> TRUE,
          operandIdx |-> IF stored THEN Incr(st.operandIdx) ELSE st.operandIdx,
          nUnresolved |-> IF e.sym = NoSym THEN st.nUnresolved + 1 ELSE st.nUnresolved,
          deps |-> IF stored
                   THEN Append(st.deps, DependenceAttr(st.operandIdx, e.sym, properties))
                   ELSE st.deps]

ParseEntry(st, e) ==
    LET properties == EntryProps(e) IN
    IF ~st.ok THEN st
    \* the list parser finds neither "," nor ")" after the source
    ELSE IF e.tok = "junk" THEN [st EXCEPT !.ok = FALSE]
    ELSE [ok |-> TRUE,
          operandIdx |-> Incr(st.operandIdx),
          nUnresolved |-> IF e.sym = NoSym THEN st.nUnresolved + 1 ELSE st.nUnresolved,
          deps |-> IF e.sym # NoSym \/ properties.present
                   THEN Append(st.deps, DependenceAttr(st.operandIdx, e.sym, properties))
                   ELSE st.deps]

RECURSIVE ParseList(_, _)
ParseList(st, entries) ==
    IF entries = <<>> THEN st
    ELSE ParseList(ParseEntry(st, Head(entries)), Tail(entries))

\* result of parse: [ok, numOperands, dependences]
parse(entries) ==
    LET st == ParseList([ok |-> TRUE, operandIdx |-> 0, nUnresolved |-> 0, deps |-> <<>>],
                        entries) IN
    IF ~st.ok
    THEN [ok |-> FALSE, numOperands |-> 0, dependences |-> NullArray]
    ELSE [ok |-> TRUE, numOperands |-> st.nUnresolved,
          dependences |-> IF st.deps # <<>> THEN Arr(st.deps) ELSE NullArray]

(***************************************************************************)
(* OperationOp::print                                                      *)
(***************************************************************************)
\* printAttribute of a property list: a null attribute prints a marker that
\* is no attribute syntax
PrintedProps(p) ==
    IF p.present THEN [tok |-> "array", items |-> p.items]
    ELSE [tok |-> "junk", items |-> <<>>]

\* defUseDeps[slot] after the loop over the dependences: the last record
\* without source that names the slot, if any
RECURSIVE DefUseDepAt(_, _)
DefUseDepAt(deps, slot) ==
    IF deps = <<>> THEN [set |-> FALSE, dep |-> DependenceAttr(0, NoSym, NullArray)]
    ELSE LET d == deps[Len(deps)] IN
         IF d.sourceRef = NoSym /\ d.operandIdx = slot
         THEN [set |-> TRUE, dep |-> d]
         ELSE DefUseDepAt(SubSeq(deps, 1, Len(deps) - 1), slot)

IsAux(d) == d.sourceRef # NoSym
AuxDeps(deps) == SelectSeq(deps, IsAux)

PrintAux(auxDeps) ==
    [i \in 1..Len(auxDeps) |->
        LET d == auxDeps[i] IN
        IF d.properties.present
        THEN Entry(d.sourceRef, "array", d.properties.items)
        ELSE Entry(d.sourceRef, "none", <<>>)]

\* the entry list print writes between the parentheses
print(nOperands, dependences) ==
    LET deps == IF dependences.present THEN dependences.items ELSE <<>>
        operandEntries ==
            [i \in 1..nOperands |->
                LET du == DefUseDepAt(deps, i - 1) IN
                IF du.set
                THEN LET pp == PrintedProps(du.dep.properties) IN
                     Entry(NoSym, pp.tok, pp.items)
                ELSE Entry(NoSym, "none", <<>>)]
    IN operandEntries \o PrintAux(AuxDeps(deps))

(***************************************************************************)
(* Property attributes and the property helpers of Utilities.h.  An        *)
(* encoded property is an attribute [ty, val]; a property kind is one of   *)
(* the attribute classes a caller lists in a tuple.                        *)
(***************************************************************************)
\* largest number of encoded values in a property array given to a helper
MaxProps == 2

Kinds == {"KA", "KB"}
AttrTypes == {"A", "B", "AB", "U"}
Attr(t, v) == [ty |-> t, val |-> v]
NoKind == "none"
NoVal == 0

\* KindT::classof(attr), as dyn_cast<KindT> asks it: "AB" attributes are
\* accepted by both kinds, "U" attributes by none
classof(kind, attr) ==
    \/ kind = "KA" /\ attr.ty \in {"A", "AB"}
    \/ kind = "KB" /\ attr.ty \in {"B", "AB"}

\* the attribute KindT::getFromProblem builds for a value held in the problem
getFromProblem(kind, v) == Attr(IF kind = "KA" THEN "A" ELSE "B", v)

\* the properties the problem holds at one attachment point, per kind
EmptyPm == [k \in Kinds |-> NoVal]
\* KindT::setInProblem at one attachment point
setInProblem(pm, kind, attr) == [pm EXCEPT ![kind] = attr.val]

\* TypeSwitch<Attribute>(prop).Case<Kind, Kinds...>(callable): the kind whose
\* case runs the callable, NoKind when no case matches
RECURSIVE CaseLastMatch(_, _)
CaseLastMatch(kinds, prop) ==
    IF kinds = <<>> THEN NoKind
    ELSE LET later == CaseLastMatch(Tail(kinds), prop) IN
         IF later # NoKind THEN later
         ELSE IF classof(Head(kinds), prop) THEN Head(kinds) ELSE NoKind

RECURSIVE Case(_, _)
Case(kinds, prop) ==
    IF kinds = <<>> THEN NoKind
    ELSE IF classof(Head(kinds), prop) THEN Head(kinds)
    ELSE Case(Tail(kinds), prop)

\* the loop `for (auto prop : props) TypeSwitch...` of the four load helpers;
\* acc is [pm, calls], calls being the setInProblem calls made so far
RECURSIVE LoadLoopStopAtUnknown(_, _, _)
LoadLoopStopAtUnknown(kinds, acc, items) ==
    IF items = <<>> THEN acc
    ELSE LET prop == Head(items)
             k == Case(kinds, prop) IN
         IF k = NoKind THEN acc
         ELSE LoadLoopStopAtUnknown(kinds,
                  [pm |-> setInProblem(acc.pm, k, prop),
                   calls |-> Append(acc.calls, [kind |-> k, prop |-> prop])],
                  Tail(items))

RECURSIVE LoadLoop(_, _, _)
LoadLoop(kinds, acc, items) ==
    IF items = <<>> THEN acc
    ELSE LET prop == Head(items)
             k == Case(kinds, prop) IN
         LoadLoop(kinds,
                  IF k = NoKind THEN acc
                  ELSE [pm |-> setInProblem(acc.pm, k, prop),
                        calls |-> Append(acc.calls, [kind |-> k, prop |-> prop])],
                  Tail(items))

\* body shared by the four helpers: the overload without kinds does nothing,
\* the other returns at once on a null array
LoadProps(kinds, pm, props) ==
    IF kinds = <<>> \/ ~props.present THEN [pm |-> pm, calls |-> <<>>]
    ELSE LoadLoop(kinds, [pm |-> pm, calls |-> <<>>], props.items)

PropsAt(f, x) == IF x \in DOMAIN f THEN f[x] ELSE EmptyPm
\* the problem's property table f after a helper ran on point x with result r:
\* the table changes only through setInProblem calls
SetAt(f, x, r) == IF r.calls = <<>> THEN f ELSE (x :> r.pm) @@ f

loadInstanceProperties(kinds, prob, props) ==
    [prob EXCEPT !.instProps = LoadProps(kinds, prob.instProps, props).pm]

loadOperatorTypeProperties(kinds, prob, opr, props) ==
    [prob EXCEPT !.oprProps =
        SetAt(prob.oprProps, opr, LoadProps(kinds, PropsAt(prob.oprProps, opr), props))]

loadOperationProperties(kinds, prob, op, props) ==
    [prob EXCEPT !.opProps =
        SetAt(prob.opProps, op, LoadProps(kinds, PropsAt(prob.opProps, op), props))]

loadDependenceProperties(kinds, prob, dep, props) ==
    [prob EXCEPT !.depProps =
        SetAt(prob.depProps, dep, LoadProps(kinds, PropsAt(prob.depProps, dep), props))]

\* the fold expression of the four save helpers: one attribute per listed
\* kind the problem holds a value for, in the order of the list
RECURSIVE SavePropsList(_, _)
SavePropsList(kinds, pm) ==
    IF kinds = <<>> THEN <<>>
    ELSE (IF pm[Head(kinds)] # NoVal
          THEN <<getFromProblem(Head(kinds), pm[Head(kinds)])>>
          ELSE <<>>) \o SavePropsList(Tail(kinds), pm)

SaveProps(kinds, pm) ==
    LET props == SavePropsList(kinds, pm) IN
    IF props = <<>> THEN NullArray ELSE Arr(props)

saveInstanceProperties(kinds, prob) == SaveProps(kinds, prob.instProps)
saveOperatorTypeProperties(kinds, prob, opr) == SaveProps(kinds, PropsAt(prob.oprProps, opr))
saveOperationProperties(kinds, prob, op) == SaveProps(kinds, PropsAt(prob.opProps, op))
saveDependenceProperties(kinds, prob, dep) == SaveProps(kinds, PropsAt(prob.depProps, dep))

\* a Problem right after ProblemT::get(instOp)
EmptyProblem ==
    [instProps |-> EmptyPm, operatorTypes |-> <<>>, oprProps |-> <<>>,
     operations |-> <<>>, opProps |-> <<>>, auxDeps |-> <<>>, depProps |-> <<>>]

(***************************************************************************)
(* The SSP instance (document form) and the Problem.  An operation handle  *)
(* is the position of the OperationOp in its instance; NullOp is the null  *)
(* Operation pointer.                                                      *)
(***************************************************************************)
\* number of OperationOps of the instances given to loadProblem
MaxOps == 3

Handles == 1..MaxOps
NullOp == 0
OprNames == <<"slow", "fast">>
OpName(i) == "n" \o ToString(i)

\* Dependence(OpOperand *) and Dependence(Operation *src, Operation *dst)
DefUse(inst, dst, idx) ==
    [kind |-> "defuse", src |-> inst.ops[dst].operands[idx + 1], dst |-> dst, idx |-> idx]
Aux(src, dst) == [kind |-> "aux", src |-> src, dst |-> dst, idx |-> -1]

Contains(seq, x) == \E k \in 1..Len(seq) : seq[k] = x
PosOf(seq, x) == CHOOSE k \in 1..Len(seq) : seq[k] = x
SetInsert(seq, x) == IF Contains(seq, x) THEN seq ELSE Append(seq, x)
AuxOf(prob, op) == IF op \in DOMAIN prob.auxDeps THEN prob.auxDeps[op] ELSE <<>>

\* Problem::insertOperatorType, Problem::insertOperation: insertion-ordered sets
insertOperatorType(prob, opr) ==
    [prob EXCEPT !.operatorTypes = SetInsert(prob.operatorTypes, opr)]
insertOperation(prob, op) ==
    [prob EXCEPT !.operations = SetInsert(prob.operations, op)]

\* Problem::insertDependence of an auxiliary dependence: fails when an
\* endpoint is no operation of the problem
insertDependence(prob, dep) ==
    IF ~Contains(prob.operations, dep.src) \/ ~Contains(prob.operations, dep.dst)
    THEN [ok |-> FALSE, prob |-> prob]
    ELSE [ok |-> TRUE,
          prob |-> [prob EXCEPT !.auxDeps =
                       (dep.dst :> SetInsert(AuxOf(prob, dep.dst), dep.src)) @@ prob.auxDeps]]

\* Problem::getDependences(op): the def-use dependences in operand order,
\* then the auxiliary dependences in insertion order
getDependences(prob, inst, op) ==
    [k \in 1..Len(inst.ops[op].operands) |-> DefUse(inst, op, k - 1)]
    \o [k \in 1..Len(AuxOf(prob, op)) |-> Aux(AuxOf(prob, op)[k], op)]

\* SymbolTable::lookupSymbolIn(instOp, sourceRef): the first operation of the
\* instance that carries the name
lookupSymbolIn(inst, name) ==
    IF \E h \in 1..Len(inst.ops) : inst.ops[h].symName = name
    THEN CHOOSE h \in 1..Len(inst.ops) :
            /\ inst.ops[h].symName = name
            /\ \A g \in 1..(h - 1) : inst.ops[g].symName # name
    ELSE NullOp

(***************************************************************************)
(* The instances given to loadProblem.  Operation i uses the results of    *)
(* the (at most two) operations declared before it; its auxiliary records  *)
(* name other operations; the property arrays follow one of three layouts. *)
(***************************************************************************)
OperandsOf(i) == IF i = 1 THEN <<>> ELSE IF i = 2 THEN <<1>> ELSE <<i - 2, i - 1>>

AuxLists(i) ==
    {<<>>} \cup {<<a>> : a \in Handles \ {i}}
           \cup {p \in (Handles \ {i}) \X (Handles \ {i}) : p[1] # p[2]}
NoAux == [h \in Handles |-> <<>>]
\* at most two operations carry auxiliary records, at most one of them two
AuxCfgs ==
    UNION {{[[NoAux EXCEPT ![i] = a] EXCEPT ![j] = b] :
               a \in AuxLists(i), b \in {l \in AuxLists(j) : Len(l) <= 1}} :
              i \in Handles, j \in Handles}

Layouts == {"bare", "plain", "mixed"}
LayoutInst(l) ==
    CASE l = "bare" -> NullArray
      [] l = "plain" -> Arr(<<Attr("A", 1)>>)
      [] l = "mixed" -> Arr(<<Attr("AB", 1), Attr("U", 2)>>)
LayoutOpr(l, t) ==
    CASE l = "bare" -> NullArray
      [] l = "plain" -> Arr(<<Attr("A", t)>>)
      [] l = "mixed" -> Arr(<<Attr("B", t), Attr("B", t + 1)>>)
LayoutOp(l, i) ==
    CASE l = "bare" -> NullArray
      [] l = "plain" -> Arr(<<Attr("A", i), Attr("B", i + 1)>>)
      [] l = "mixed" -> IF i = 1 THEN Arr(<<Attr("U", 1)>>) ELSE Arr(<<Attr("AB", i)>>)
\* the def-use records of an operation with k operands
LayoutData(l, k) ==
    CASE l = "bare" -> <<>>
      [] l = "plain" -> [s \in 1..k |-> DependenceAttr(s - 1, NoSym, Arr(<<Attr("A", s)>>))]
      [] l = "mixed" ->
            IF k = 0 THEN <<>>
            ELSE IF k = 1 THEN <<DependenceAttr(0, NoSym, Arr(<<>>))>>
            ELSE <<DependenceAttr(k - 1, NoSym, Arr(<<Attr("AB", 2), Attr("U", 1)>>))>>
LayoutAux(l, j) ==
    CASE l = "bare" -> NullArray
      [] l = "plain" -> Arr(<<Attr("B", j)>>)
      [] l = "mixed" -> IF j = 1 THEN Arr(<<>>) ELSE Arr(<<Attr("A", j)>>)

OperationOp(symName, operands, deps, properties) ==
    [symName |-> symName, operands |-> operands,
     dependences |-> deps, properties |-> properties]

MakeOp(i, unnamed, auxList, l) ==
    LET k == Len(OperandsOf(i))
        recs == LayoutData(l, k)
                \o [j \in 1..Len(auxList) |->
                       DependenceAttr(k + j - 1, OpName(auxList[j]), LayoutAux(l, j))]
    IN OperationOp(IF i = unnamed THEN NoSym ELSE OpName(i), OperandsOf(i),
                   IF recs = <<>> THEN NullArray ELSE Arr(recs), LayoutOp(l, i))

MakeInstance(unnamed, auxCfg, l) ==
    [properties |-> LayoutInst(l),
     oprs |-> [t \in 1..Len(OprNames) |->
                  [name |-> OprNames[t], properties |-> LayoutOpr(l, t)]],
     ops |-> [i \in Handles |-> MakeOp(i, unnamed, auxCfg[i], l)]]

InstanceVerified(inst) ==
    \A i \in 1..Len(inst.ops) : verify(Len(inst.ops[i].operands), inst.ops[i].dependences)

\* every operation is named, or all but the first, or all but the last
Instances ==
    {inst \in {MakeInstance(u, f, l) : u \in {0, 1, MaxOps}, f \in AuxCfgs, l \in Layouts} :
        InstanceVerified(inst)}
NamedInstances ==
    {inst \in {MakeInstance(0, f, l) : f \in AuxCfgs, l \in {"plain", "mixed"}} :
        InstanceVerified(inst)}

\* the kind tuples a caller passes to loadProblem and saveProblem
KindCfgs ==
    {[op |-> <<"KA", "KB">>, opr |-> <<"KA", "KB">>,
      dep |-> <<"KA", "KB">>, inst |-> <<"KA", "KB">>],
     [op |-> <<"KB", "KA">>, opr |-> <<"KB">>,
      dep |-> <<"KB", "KA">>, inst |-> <<>>]}

(***************************************************************************)
(* loadProblem, walk by walk.  The cursor is [stage, i, j]: the walk the   *)
(* loader is in, the declaration it is at, and the dependence record.      *)
(***************************************************************************)
Cursor(st, i, j) == [stage |-> st, i |-> i, j |-> j]
Returned == Cursor("returned", 0, 0)

FirstOfOps(inst) == IF Len(inst.ops) > 0 THEN Cursor("ops", 1, 0) ELSE Returned
FirstOfWalks(inst) == IF Len(inst.oprs) > 0 THEN Cursor("oprs", 1, 0) ELSE FirstOfOps(inst)

\* position after the step at cur: the three walks run one after the other
NextCursorSinglePass(inst, cur) ==
    CASE cur.stage = "oprs" ->
            IF cur.i < Len(inst.oprs) THEN Cursor("oprs", cur.i + 1, 0) ELSE FirstOfOps(inst)
      [] cur.stage = "ops" -> Cursor("deps", cur.i, 1)
      [] cur.stage = "deps" ->
            IF cur.j < Len(RecsOf(inst.ops[cur.i].dependences))
            THEN Cursor("deps", cur.i, cur.j + 1)
            ELSE IF cur.i < Len(inst.ops) THEN Cursor("ops", cur.i + 1, 0) ELSE Returned

NextCursor(inst, cur) ==
    CASE cur.stage = "oprs" ->
            IF cur.i < Len(inst.oprs) THEN Cursor("oprs", cur.i + 1, 0) ELSE FirstOfOps(inst)
      [] cur.stage = "ops" ->
            IF cur.i < Len(inst.ops) THEN Cursor("ops", cur.i + 1, 0) ELSE Cursor("deps", 1, 1)
      [] cur.stage = "deps" ->
            IF cur.j < Len(RecsOf(inst.ops[cur.i].dependences))
            THEN Cursor("deps", cur.i, cur.j + 1)
            ELSE IF cur.i < Len(inst.ops) THEN Cursor("deps", cur.i + 1, 1) ELSE Returned

\* an entry of the trace: an insertion, or the processing of dependence
\* record j of operation i, with the source it resolved to and the last step
\* reached: "lookup", "insert" (constructed and given to insertDependence) or
\* "depProps" (properties installed)
Event(e, i, j, src, upto) == [ev |-> e, op |-> i, rec |-> j, src |-> src, upto |-> upto]

(***************************************************************************)
(* saveProblem: the name assignment pass and the emission pass, one        *)
(* operation of the problem at a time.                                     *)
(***************************************************************************)
\* Twine("Op") + Twine(opNames.size())
SynthName(size) == "Op" \o ToString(size)
\* opNames.size() in `opNames[src] = ... Twine(opNames.size())`: read before
\* opNames[src] inserts the entry, or after it where the language standard
\* of the build leaves the order of the two operands open
SizeRead(names, after) == Cardinality(DOMAIN names) + (IF after THEN 1 ELSE 0)
Lookup(names, op) == IF op \in DOMAIN names THEN names[op] ELSE NoSym

\* body of the inner loop of the name pass for one dependence; tab is
\* [names, synth]: the DenseMap opNames and the operations whose name was
\* synthesized
NameDependence(tab, fn, after, dep) ==
    IF dep.kind # "aux" \/ dep.src \in DOMAIN tab.names THEN tab
    ELSE IF fn[dep.src] # NoSym
         THEN [tab EXCEPT !.names = (dep.src :> fn[dep.src]) @@ tab.names]
         ELSE [names |-> (dep.src :> SynthName(SizeRead(tab.names, after))) @@ tab.names,
               synth |-> tab.synth \cup {dep.src}]

RECURSIVE NameDependences(_, _, _, _)
NameDependences(tab, fn, after, deps) ==
    IF deps = <<>> THEN tab
    ELSE NameDependences(NameDependence(tab, fn, after, Head(deps)), fn, after, Tail(deps))

\* one iteration of the outer loop of the name pass
NameOperation(tab, fn, after, prob, inst, op) ==
    LET provided == IF fn[op] # NoSym
                    THEN [names |-> (op :> fn[op]) @@ tab.names,
                          synth |-> tab.synth \ {op}]
                    ELSE tab
    IN NameDependences(provided, fn, after, getDependences(prob, inst, op))

\* body of the inner loop of the emission pass for one dependence; acc is
\* [depAttrs, auxOperandIdx]
EmitDependenceNoIncrement(kinds, prob, names, acc, dep) ==
    LET depProps == saveDependenceProperties(kinds, prob, dep) IN
    IF dep.kind = "defuse" /\ depProps.present
    THEN [acc EXCEPT !.depAttrs = Append(@, DependenceAttr(dep.idx, NoSym, depProps))]
    ELSE IF dep.kind # "aux" THEN acc
    ELSE [depAttrs |-> Append(acc.depAttrs,
                          DependenceAttr(acc.auxOperandIdx, Lookup(names, dep.src), depProps)),
          auxOperandIdx |-> acc.auxOperandIdx]

EmitDependenceNoDefUse(kinds, prob, names, acc, dep) ==
    LET depProps == saveDependenceProperties(kinds, prob, dep) IN
    IF dep.kind # "aux" THEN acc
    ELSE [depAttrs |-> Append(acc.depAttrs,
                          DependenceAttr(acc.auxOperandIdx, Lookup(names, dep.src), depProps)),
          auxOperandIdx |-> Incr(acc.auxOperandIdx)]

EmitDependence(kinds, prob, names, acc, dep) ==
    LET depProps == saveDependenceProperties(kinds, prob, dep) IN
    IF dep.kind = "defuse" /\ depProps.present
    THEN [acc EXCEPT !.depAttrs = Append(@, DependenceAttr(dep.idx, NoSym, depProps))]
    ELSE IF dep.kind # "aux" THEN acc
    ELSE [depAttrs |-> Append(acc.depAttrs,
                          DependenceAttr(acc.auxOperandIdx, Lookup(names, dep.src), depProps)),
          auxOperandIdx |-> Incr(acc.auxOperandIdx)]

RECURSIVE EmitDependences(_, _, _, _, _)
EmitDependences(kinds, prob, names, acc, deps) ==
    IF deps = <<>> THEN acc
    ELSE EmitDependences(kinds, prob, names,
                         EmitDependence(kinds, prob, names, acc, Head(deps)), Tail(deps))

\* one iteration of the emission loop: the OperationOp created for op
EmitOperation(kc, prob, names, inst, op) ==
    LET acc == EmitDependences(kc.dep, prob, names,
                   [depAttrs |-> <<>>, auxOperandIdx |-> Len(inst.ops[op].operands)],
                   getDependences(prob, inst, op))
        operands == [k \in 1..Len(inst.ops[op].operands) |->
                        PosOf(prob.operations, inst.ops[op].operands[k])]
    IN OperationOp(Lookup(names, op), operands,
                   IF acc.depAttrs # <<>> THEN Arr(acc.depAttrs) ELSE NullArray,
                   saveOperationProperties(kc.op, prob, op))

\* the InstanceOp and the OperatorTypeOps created before the name pass
EmitInstance(kc, prob) ==
    [properties |-> saveInstanceProperties(kc.inst, prob),
     oprs |-> [t \in 1..Len(prob.operatorTypes) |->
                  [name |-> prob.operatorTypes[t],
                   properties |-> saveOperatorTypeProperties(kc.opr, prob, prob.operatorTypes[t])]],
     ops |-> <<>>]

\* the operationNameFn of the caller: a name for at most one operation
SuppliedNames == {SynthName(k) : k \in 0..(MaxOps - 1)} \cup {"x"}
NoNames == [h \in Handles |-> NoSym]
NameFns == {NoNames} \cup {[NoNames EXCEPT ![h] = nm] : h \in Handles, nm \in SuppliedNames}
NamesOf(inst) == [h \in 1..Len(inst.ops) |-> inst.ops[h].symName]

(***************************************************************************)
(* State.                                                                  *)
(***************************************************************************)
VARIABLES
    codecPc,      \* position of the codec run
    numOperands,  \* the operation's SSA operand count
    dependences,  \* the operation's `dependences` attribute
    asmText,      \* the entry list in the textual form
    verified,     \* result of the last verify()
    parsed,       \* result of the last parse()
    given,        \* the input the codec run started from
    propPc,       \* position of the property helper run
    propKinds,    \* the kind list the helper is instantiated with
    propArr,      \* the property array given to the helper
    propProb,     \* the Problem the helper writes
    propCalls,    \* the setInProblem calls the helper made
    mode,         \* "roundtrip": save with the instance's names and load again; "save": any nameFn
    srcInst,      \* the instance the run started from
    phase,        \* "load", "save", "saved", "reload"
    instOp,       \* the instance being loaded; its operations are the Problem's
    kindCfg,      \* the kind tuples of the load and save calls
    prob,         \* the Problem
    build,        \* "assert" or "ndebug" once an assert decided the run, "unknown" before
    ld,           \* cursor of loadProblem
    trace,        \* what loadProblem did so far, in order
    firstProb,    \* the Problem the first load returned
    nameFn,       \* operationNameFn
    opNames,      \* the DenseMap opNames of saveProblem
    synth,        \* operations whose entry of opNames was synthesized
    sizeRead,     \* "before" or "after" once a name was synthesized, "unknown" before
    sv,           \* cursor of saveProblem
    outInst       \* the instance saveProblem builds

codecVars == <<codecPc, numOperands, dependences, asmText, verified, parsed, given>>
propVars == <<propPc, propKinds, propArr, propProb, propCalls>>
pipeVars == <<mode, srcInst, phase, instOp, kindCfg, prob, build, ld, trace, firstProb,
              nameFn, opNames, synth, sizeRead, sv, outInst>>
vars == <<codecVars, propVars, pipeVars>>

NoText == <<>>
NoParse == [ok |-> FALSE, numOperands |-> 0, dependences |-> NullArray]
NoInstance == [properties |-> NullArray, oprs |-> <<>>, ops |-> <<>>]

CodecIdle ==
    /\ codecPc = "idle" /\ numOperands = 0 /\ dependences = NullArray
    /\ asmText = NoText /\ verified = FALSE /\ parsed = NoParse
    /\ given = [kind |-> "none", numOperands |-> 0, dependences |-> NullArray, text |-> NoText]
PropIdle ==
    /\ propPc = "idle" /\ propKinds = <<>> /\ propArr = NullArray
    /\ propProb = EmptyProblem /\ propCalls = <<>>
PipeIdle ==
    /\ mode = "idle" /\ phase = "idle" /\ instOp = NoInstance /\ srcInst = NoInstance
    /\ kindCfg = [op |-> <<>>, opr |-> <<>>, dep |-> <<>>, inst |-> <<>>]
    /\ prob = EmptyProblem /\ build = "unknown" /\ ld = Cursor("idle", 0, 0)
    /\ trace = <<>> /\ firstProb = EmptyProblem /\ nameFn = NoNames
    /\ opNames = <<>> /\ synth = {} /\ sizeRead = "unknown"
    /\ sv = Cursor("idle", 0, 0) /\ outInst = NoInstance

(***************************************************************************)
(* The codec: verify, print and parse of one operation.                    *)
(***************************************************************************)
TextEntries ==
    {Entry(s, t, it) : s \in {NoSym, "a"},
                       t \in {"none", "array"}, it \in {<<>>, <<"p">>}}
    \ {Entry(s, "none", <<"p">>) : s \in {NoSym, "a"}}

\* an operation built programmatically, with any `dependences` attribute
InitOp ==
    /\ codecPc = "op"
    /\ numOperands \in 0..MaxInputs
    /\ dependences \in {NullArray} \cup {Arr(s) : s \in SeqsUpTo(CodecRecords, MaxRecs)}
    /\ asmText = NoText
    /\ verified = FALSE
    /\ parsed = NoParse
    /\ given = [kind |-> "op", numOperands |-> numOperands,
                dependences |-> dependences, text |-> NoText]

\* an operation given in the textual form
InitText ==
    /\ codecPc = "text"
    /\ numOperands = 0
    /\ dependences = NullArray
    /\ asmText \in SeqsUpTo(TextEntries, MaxInputs + MaxRecs)
    /\ verified = FALSE
    /\ parsed = NoParse
    /\ given = [kind |-> "text", numOperands |-> 0,
                dependences |-> NullArray, text |-> asmText]

CodecInit == (InitOp \/ InitText) /\ PropIdle /\ PipeIdle

\* verify() on the operation at hand
DoVerify ==
    /\ codecPc \in {"op", "parsed"}
    /\ verified' = verify(numOperands, dependences)
    /\ codecPc' = IF codecPc = "op" THEN "verified" ELSE "done"
    /\ UNCHANGED <<numOperands, dependences, asmText, parsed, given>>
    /\ UNCHANGED <<propVars, pipeVars>>

\* print() of a verified operation
DoPrint ==
    /\ codecPc = "verified"
    /\ verified
    /\ asmText' = print(numOperands, dependences)
    /\ codecPc' = "text"
    /\ UNCHANGED <<numOperands, dependences, verified, parsed, given>>
    /\ UNCHANGED <<propVars, pipeVars>>

\* parse() of the text at hand; a failed parse builds no operation
DoParse ==
    /\ codecPc = "text"
    /\ parsed' = parse(asmText)
    /\ IF parsed'.ok
       THEN /\ numOperands' = parsed'.numOperands
            /\ dependences' = parsed'.dependences
            /\ codecPc' = "parsed"
       ELSE /\ UNCHANGED <<numOperands, dependences>>
            /\ codecPc' = "failed"
    /\ UNCHANGED <<asmText, verified, given>>
    /\ UNCHANGED <<propVars, pipeVars>>

CodecNext == DoVerify \/ DoPrint \/ DoParse

SpecCodec == CodecInit /\ [][CodecNext]_vars

(***************************************************************************)
(* The property helpers, each called once on a fresh Problem.              *)
(***************************************************************************)
KindLists == {<<>>, <<"KA">>, <<"KB">>, <<"KA", "KB">>, <<"KB", "KA">>}
PropAttrs == {Attr(t, v) : t \in AttrTypes, v \in 1..2}

PropInit ==
    /\ propPc = "ready"
    /\ propKinds \in KindLists
    /\ propArr \in {NullArray} \cup {Arr(s) : s \in SeqsUpTo(PropAttrs, MaxProps)}
    /\ propProb = EmptyProblem
    /\ propCalls = <<>>
    /\ CodecIdle /\ PipeIdle

DoLoadInstanceProperties ==
    /\ propPc = "ready"
    /\ propProb' = loadInstanceProperties(propKinds, propProb, propArr)
    /\ propCalls' = LoadProps(propKinds, propProb.instProps, propArr).calls
    /\ propPc' = "instance"
    /\ UNCHANGED <<propKinds, propArr, codecVars, pipeVars>>

DoLoadOperatorTypeProperties ==
    /\ propPc = "ready"
    /\ propProb' = loadOperatorTypeProperties(propKinds, propProb, OprNames[1], propArr)
    /\ propCalls' = LoadProps(propKinds, PropsAt(propProb.oprProps, OprNames[1]), propArr).calls
    /\ propPc' = "operatorType"
    /\ UNCHANGED <<propKinds, propArr, codecVars, pipeVars>>

DoLoadOperationProperties ==
    /\ propPc = "ready"
    /\ propProb' = loadOperationProperties(propKinds, propProb, 1, propArr)
    /\ propCalls' = LoadProps(propKinds, PropsAt(propProb.opProps, 1), propArr).calls
    /\ propPc' = "operation"
    /\ UNCHANGED <<propKinds, propArr, codecVars, pipeVars>>

DoLoadDependenceProperties ==
    /\ propPc = "ready"
    /\ propProb' = loadDependenceProperties(propKinds, propProb, Aux(1, 2), propArr)
    /\ propCalls' = LoadProps(propKinds, PropsAt(propProb.depProps, Aux(1, 2)), propArr).calls
    /\ propPc' = "dependence"
    /\ UNCHANGED <<propKinds, propArr, codecVars, pipeVars>>

PropNext ==
    \/ DoLoadInstanceProperties
    \/ DoLoadOperatorTypeProperties
    \/ DoLoadOperationProperties
    \/ DoLoadDependenceProperties

SpecProps == PropInit /\ [][PropNext]_vars

(***************************************************************************)
(* loadProblem and saveProblem on an instance.                             *)
(***************************************************************************)
PipeStart(m) ==
    /\ mode = m
    /\ srcInst = instOp
    /\ phase = "load"
    /\ prob = EmptyProblem
    /\ build = "unknown"
    /\ ld = Cursor("start", 0, 0)
    /\ trace = <<>>
    /\ firstProb = EmptyProblem
    /\ nameFn = NoNames
    /\ opNames = <<>>
    /\ synth = {}
    /\ sizeRead = "unknown"
    /\ sv = Cursor("idle", 0, 0)
    /\ outInst = NoInstance
    /\ CodecIdle /\ PropIdle

\* load, save with the instance's own names, load again
Init ==
    /\ instOp \in Instances
    /\ kindCfg \in KindCfgs
    /\ PipeStart("roundtrip")

\* load, save with any operationNameFn
InitSave ==
    /\ instOp \in NamedInstances
    /\ kindCfg = [op |-> <<"KA", "KB">>, opr |-> <<"KA", "KB">>,
                  dep |-> <<"KA", "KB">>, inst |-> <<"KA", "KB">>]
    /\ PipeStart("save")

\* ProblemT::get and the instance properties
LoadInstance ==
    /\ phase \in {"load", "reload"}
    /\ ld.stage = "start"
    /\ prob' = loadInstanceProperties(kindCfg.inst, EmptyProblem, instOp.properties)
    /\ ld' = FirstOfWalks(instOp)
    /\ trace' = <<>>
    /\ UNCHANGED <<mode, srcInst, phase, instOp, kindCfg, build, firstProb, nameFn, opNames,
                   synth, sizeRead, sv, outInst, codecVars, propVars>>

\* the callback of the walk over the OperatorTypeOps
LoadOperatorType ==
    /\ ld.stage = "oprs"
    /\ LET oprOp == instOp.oprs[ld.i] IN
       /\ prob' = loadOperatorTypeProperties(kindCfg.opr,
                      insertOperatorType(prob, oprOp.name), oprOp.name, oprOp.properties)
       /\ trace' = Append(trace, Event("insertOperatorType", ld.i, 0, NullOp, ""))
    /\ ld' = NextCursor(instOp, ld)
    /\ UNCHANGED <<mode, srcInst, phase, instOp, kindCfg, build, firstProb, nameFn, opNames,
                   synth, sizeRead, sv, outInst, codecVars, propVars>>

\* the callback of the first walk over the OperationOps
LoadOperation ==
    /\ ld.stage = "ops"
    /\ prob' = loadOperationProperties(kindCfg.op,
                   insertOperation(prob, ld.i), ld.i, instOp.ops[ld.i].properties)
    /\ trace' = Append(trace, Event("insertOperation", ld.i, 0, NullOp, ""))
    /\ ld' = NextCursor(instOp, ld)
    /\ UNCHANGED <<mode, srcInst, phase, instOp, kindCfg, build, firstProb, nameFn, opNames,
                   synth, sizeRead, sv, outInst, codecVars, propVars>>

\* the callback of the second walk on an operation without dependence records
LoadNoDependences ==
    /\ ld.stage = "deps"
    /\ RecsOf(instOp.ops[ld.i].dependences) = <<>>
    /\ ld' = NextCursor(instOp, ld)
    /\ UNCHANGED <<mode, srcInst, phase, instOp, kindCfg, prob, build, trace, firstProb, nameFn,
                   opNames, synth, sizeRead, sv, outInst, codecVars, propVars>>

\* one iteration of the loop over the dependence records of an operation.
\* An assert that fails aborts the run in a build with assertions and is
\* skipped in a build with NDEBUG.
LoadDependence ==
    /\ ld.stage = "deps"
    /\ ld.j <= Len(RecsOf(instOp.ops[ld.i].dependences))
    /\ LET depAttr == instOp.ops[ld.i].dependences.items[ld.j]
           isAux == depAttr.sourceRef # NoSym
           sourceOp == lookupSymbolIn(instOp, depAttr.sourceRef)
           dep == IF isAux THEN Aux(sourceOp, ld.i)
                  ELSE DefUse(instOp, ld.i, depAttr.operandIdx)
           res == IF isAux THEN insertDependence(prob, dep) ELSE [ok |-> TRUE, prob |-> prob]
           ev == IF isAux THEN "auxRecord" ELSE "dataRecord"
           failing == isAux /\ (sourceOp = NullOp \/ ~res.ok)
       IN \E b \in (IF failing /\ build = "unknown" THEN {"assert", "ndebug"} ELSE {build}) :
            /\ build' = b
            /\ IF isAux /\ sourceOp = NullOp /\ b = "assert"
               THEN \* assert(sourceOp)
                    /\ ld' = Cursor("fatal", ld.i, ld.j)
                    /\ trace' = Append(trace, Event(ev, ld.i, ld.j, sourceOp, "lookup"))
                    /\ prob' = prob
               ELSE IF isAux /\ ~res.ok /\ b = "assert"
               THEN \* assert(succeeded(res))
                    /\ ld' = Cursor("fatal", ld.i, ld.j)
                    /\ trace' = Append(trace, Event(ev, ld.i, ld.j, dep.src, "insert"))
                    /\ prob' = res.prob
               ELSE /\ ld' = NextCursor(instOp, ld)
                    /\ trace' = Append(trace, Event(ev, ld.i, ld.j, dep.src, "depProps"))
                    /\ prob' = loadDependenceProperties(kindCfg.dep, res.prob, dep,
                                                        depAttr.properties)
    /\ UNCHANGED <<mode, srcInst, phase, instOp, kindCfg, firstProb, nameFn, opNames,
                   synth, sizeRead, sv, outInst, codecVars, propVars>>

\* saveProblem up to the name pass: the InstanceOp and the OperatorTypeOps
SaveInstance ==
    /\ phase = "load"
    /\ ld.stage = "returned"
    /\ nameFn' \in (IF mode = "roundtrip" THEN {NamesOf(instOp)} ELSE NameFns)
    /\ firstProb' = prob
    /\ outInst' = EmitInstance(kindCfg, prob)
    /\ opNames' = <<>>
    /\ synth' = {}
    /\ sizeRead' = "unknown"
    /\ phase' = "save"
    /\ sv' = Cursor("names", 1, 0)
    /\ UNCHANGED <<mode, srcInst, instOp, kindCfg, prob, build, ld, trace, codecVars, propVars>>

\* one iteration of the name assignment loop
SaveOperationName ==
    /\ phase = "save"
    /\ sv.stage = "names"
    /\ LET Named(after) == NameOperation([names |-> opNames, synth |-> synth], nameFn, after,
                                          prob, instOp, prob.operations[sv.i])
           synthesizes == Named(FALSE).synth # synth \ {prob.operations[sv.i]}
       IN \E o \in (IF synthesizes /\ sizeRead = "unknown"
                    THEN {"before", "after"} ELSE {sizeRead}) :
             /\ sizeRead' = o
             /\ opNames' = Named(o = "after").names
             /\ synth' = Named(o = "after").synth
    /\ sv' = IF sv.i < Len(prob.operations)
             THEN Cursor("names", sv.i + 1, 0) ELSE Cursor("emit", 1, 0)
    /\ UNCHANGED <<mode, srcInst, phase, instOp, kindCfg, prob, build, ld, trace, firstProb,
                   nameFn, outInst, codecVars, propVars>>

\* one iteration of the emission loop; the instance is returned after the last
SaveOperation ==
    /\ phase = "save"
    /\ sv.stage = "emit"
    /\ outInst' = [outInst EXCEPT !.ops =
                      Append(@, EmitOperation(kindCfg, prob, opNames, instOp,
                                              prob.operations[sv.i]))]
    /\ IF sv.i < Len(prob.operations)
       THEN /\ sv' = Cursor("emit", sv.i + 1, 0)
            /\ phase' = phase
       ELSE /\ sv' = Cursor("done", 0, 0)
            /\ phase' = "saved"
    /\ UNCHANGED <<mode, srcInst, instOp, kindCfg, prob, build, ld, trace, firstProb,
                   nameFn, opNames, synth, sizeRead, codecVars, propVars>>

\* loadProblem on the instance saveProblem returned
Reload ==
    /\ phase = "saved"
    /\ mode = "roundtrip"
    /\ phase' = "reload"
    /\ instOp' = outInst
    /\ prob' = EmptyProblem
    /\ ld' = Cursor("start", 0, 0)
    /\ trace' = <<>>
    /\ UNCHANGED <<mode, srcInst, kindCfg, build, firstProb, nameFn, opNames, synth, sizeRead,
                   sv, outInst, codecVars, propVars>>

Next ==
    \/ LoadInstance
    \/ LoadOperatorType
    \/ LoadOperation
    \/ LoadNoDependences
    \/ LoadDependence
    \/ SaveInstance
    \/ SaveOperationName
    \/ SaveOperation
    \/ Reload

NextSave ==
    \/ LoadInstance
    \/ LoadOperatorType
    \/ LoadOperation
    \/ LoadNoDependences
    \/ LoadDependence
    \/ SaveInstance
    \/ SaveOperationName
    \/ SaveOperation

Spec == Init /\ [][Next]_vars
SpecSave == InitSave /\ [][NextSave]_vars

(***************************************************************************)
(* Claims about the codec.                                                 *)
(***************************************************************************)
Count(s, Test(_)) == Len(SelectSeq(s, Test))
IsData(d) == d.sourceRef = NoSym

\* the invariants of a node's dependence-record sequence, read in order
Sec3Valid(nInputs, recs) ==
    /\ \A i \in 1..Len(recs) :
          IsData(recs[i]) =>
             /\ recs[i].operandIdx < nInputs
             /\ \A j \in 1..(i - 1) : recs[j].operandIdx < recs[i].operandIdx
    /\ \A i \in 1..Len(recs) :
          IsAux(recs[i]) =>
             recs[i].operandIdx = nInputs + Count(SubSeq(recs, 1, i - 1), IsAux)
    /\ \A i \in 1..Len(recs) : \A j \in 1..(i - 1) :
          ~(IsAux(recs[j]) /\ IsData(recs[i]))

\* C1: verify accepts a dependence-record sequence if and only if the
\* invariants of the record sequence hold for it and the operand count, for
\* operations built directly and for parsed ones.
C1_VerifyIffInvariants ==
    codecPc \in {"verified", "done"} =>
        (verified <=> Sec3Valid(numOperands, RecsOf(dependences)))

C1_Witness ==
    /\ codecPc = "verified"
    /\ verified
    /\ numOperands = 2
    /\ \E i, j \in 1..Len(RecsOf(dependences)) :
          IsData(dependences.items[i]) /\ IsAux(dependences.items[j])

EntryIsSsa(e) == e.sym = NoSym
EntryIsSym(e) == e.sym # NoSym
EntryStored(e) == e.sym # NoSym \/ e.tok = "array"

\* the records the entry list stands for when concrete inputs are counted
\* apart from name references
SlotOf(entries, p) ==
    IF EntryIsSsa(entries[p])
    THEN Count(SubSeq(entries, 1, p - 1), EntryIsSsa)
    ELSE Count(entries, EntryIsSsa) + Count(SubSeq(entries, 1, p - 1), EntryIsSym)

RECURSIVE RecsByKind(_, _)
RecsByKind(entries, p) ==
    IF p > Len(entries) THEN <<>>
    ELSE (IF EntryStored(entries[p])
          THEN <<DependenceAttr(SlotOf(entries, p), entries[p].sym, EntryProps(entries[p]))>>
          ELSE <<>>) \o RecsByKind(entries, p + 1)

ParsedAsCounted ==
    /\ numOperands = Count(asmText, EntryIsSsa)
    /\ RecsOf(dependences) = RecsByKind(asmText, 1)

\* the records the entry list stands for when every entry takes its position
\* in the list as slot index
RECURSIVE RecsByPosition(_, _)
RecsByPosition(entries, p) ==
    IF p > Len(entries) THEN <<>>
    ELSE (IF EntryStored(entries[p])
          THEN <<DependenceAttr(p - 1, entries[p].sym, EntryProps(entries[p]))>>
          ELSE <<>>) \o RecsByPosition(entries, p + 1)

ParsedAsPositioned ==
    /\ numOperands = Count(asmText, EntryIsSsa)
    /\ RecsOf(dependences) = RecsByPosition(asmText, 1)

\* no concrete-input entry follows a name-reference entry
InputsFirst(entries) ==
    \A i \in 1..Len(entries) : \A j \in 1..(i - 1) :
        ~(EntryIsSym(entries[j]) /\ EntryIsSsa(entries[i]))

\* C7 as stated: for every entry list, parse gives the k-th concrete-input
\* entry slot k and the j-th name reference slot numInputs + j, with a record
\* for every name reference and every concrete input with a property list.
C7_ParseSlotsAnyList ==
    codecPc \in {"parsed", "done"} => ParsedAsCounted

\* C7 amended: parse gives every entry its position in the list as slot
\* index, which is the slot assignment of the claim for every entry list in
\* which no concrete-input entry follows a name-reference entry; a record is
\* produced for every name reference and every concrete input with a
\* property list.
C7_ParseSlotsInputsFirst ==
    codecPc \in {"parsed", "done"} =>
        /\ ParsedAsPositioned
        /\ InputsFirst(asmText) => ParsedAsCounted

C7_Witness ==
    /\ codecPc = "parsed"
    /\ given.kind = "text"
    /\ InputsFirst(asmText)
    /\ Len(asmText) = 3
    /\ \E i, j, k \in 1..3 :
          /\ EntryIsSsa(asmText[i]) /\ ~EntryStored(asmText[i])
          /\ EntryIsSsa(asmText[j]) /\ EntryStored(asmText[j])
          /\ EntryIsSym(asmText[k])

\* C8: printing an operation that verify accepts and parsing the printed
\* list gives back the operand count and the record sequence.
C8_PrintParseRoundTrip ==
    (given.kind = "op" /\ codecPc \in {"failed", "parsed", "done"}) =>
        /\ parsed.ok
        /\ parsed.numOperands = given.numOperands
        /\ RecsOf(parsed.dependences) = RecsOf(given.dependences)

(***************************************************************************)
(* Claims about the property helpers.                                      *)
(***************************************************************************)
PropReturned == propPc \in {"instance", "operatorType", "operation", "dependence"}
Recognized(kinds, a) == \E i \in 1..Len(kinds) : classof(kinds[i], a)
FirstKind(kinds, a) ==
    kinds[CHOOSE i \in 1..Len(kinds) :
             classof(kinds[i], a) /\ \A j \in 1..(i - 1) : ~classof(kinds[j], a)]
RecognizedItems(kinds, items) ==
    LET Rec(a) == Recognized(kinds, a) IN SelectSeq(items, Rec)

C6_FirstMatchDispatch ==
    PropReturned =>
        LET items == RecognizedItems(propKinds, RecsOf(propArr)) IN
        /\ Len(propCalls) = Len(items)
        /\ \A k \in 1..Len(propCalls) :
              /\ propCalls[k].prop = items[k]
              /\ propCalls[k].kind = FirstKind(propKinds, items[k])
              /\ ((\A kd \in Kinds : classof(kd, items[k])) /\ Len(propKinds) = 2)
                    => propCalls[k].kind = propKinds[1]
        /\ ~propArr.present => (propCalls = <<>> /\ propProb = EmptyProblem)

C6_Witness ==
    /\ PropReturned
    /\ propKinds = <<"KB", "KA">>
    /\ Len(RecsOf(propArr)) = 2
    /\ propArr.items[1].ty = "AB"
    /\ propArr.items[2].ty = "A"
    /\ Len(propCalls) = 2
    /\ propCalls[1].kind = "KB"
    /\ propCalls[2].kind = "KA"

(***************************************************************************)
(* Claims about loadProblem and saveProblem.                               *)
(***************************************************************************)
\* C2: after the name pass every synthesized name differs from every other
\* name of the table, synthesized or supplied by the caller.
C2_NameTableInjective ==
    (phase \in {"save", "saved"} /\ sv.stage \in {"emit", "done"}) =>
        \A h \in synth : \A g \in DOMAIN opNames :
            g # h => opNames[g] # opNames[h]

\* every source name of the instance is the name of one of its operations
NamesResolve(inst) ==
    \A i \in 1..Len(inst.ops) : \A j \in 1..Len(RecsOf(inst.ops[i].dependences)) :
        LET r == inst.ops[i].dependences.items[j] IN
        r.sourceRef # NoSym => lookupSymbolIn(inst, r.sourceRef) # NullOp

Range(seq) == {seq[k] : k \in 1..Len(seq)}
\* a Problem up to the identity of its operations: each handle is replaced
\* by the position of the operation in the Problem's order
Normal(P, inst) ==
    LET Ren(d) == [d EXCEPT !.src = PosOf(P.operations, d.src),
                            !.dst = PosOf(P.operations, d.dst)]
        DepsOf(k) == Range(getDependences(P, inst, P.operations[k]))
    IN [numOps |-> Len(P.operations),
        operatorTypes |-> P.operatorTypes,
        instProps |-> P.instProps,
        oprProps |-> [t \in 1..Len(P.operatorTypes) |-> PropsAt(P.oprProps, P.operatorTypes[t])],
        opProps |-> [k \in 1..Len(P.operations) |-> PropsAt(P.opProps, P.operations[k])],
        deps |-> [k \in 1..Len(P.operations) |-> {Ren(d) : d \in DepsOf(k)}],
        depProps |-> [k \in 1..Len(P.operations) |->
                         {<<Ren(d), PropsAt(P.depProps, d)>> : d \in DepsOf(k)}]]

RoundTripDone == mode = "roundtrip" /\ phase = "reload" /\ ld.stage = "returned"

\* C3: loading a valid instance, saving the Problem with the same kind
\* tuples and the instance's own names, and loading the saved instance gives
\* a Problem with the same operations in the same order, the same operator
\* types, the same dependences and the same properties everywhere.
C3_RoundTrip ==
    (RoundTripDone /\ NamesResolve(srcInst)) =>
        Normal(prob, instOp) = Normal(firstProb, srcInst)

C3_Witness ==
    /\ RoundTripDone
    /\ NamesResolve(srcInst)
    /\ \E i \in Handles : srcInst.ops[i].symName = NoSym
    /\ Len(AuxOf(firstProb, 1)) = 2
    /\ \E d \in DOMAIN firstProb.depProps : d.kind = "aux" /\ firstProb.depProps[d] # EmptyPm
    /\ \E d \in DOMAIN firstProb.depProps : d.kind = "defuse" /\ firstProb.depProps[d] # EmptyPm
    /\ firstProb.instProps # EmptyPm

\* C4: a dependence record whose source name resolves to no operation ends
\* the load in the fatal state right after the lookup: no Dependence is
\* constructed or inserted for it, no properties are installed, no later
\* record is processed.
C4_UnresolvedIsFatal ==
    \A k \in 1..Len(trace) :
        (trace[k].ev = "auxRecord" /\ trace[k].src = NullOp) =>
            (ld.stage = "fatal" /\ trace[k].upto = "lookup" /\ k = Len(trace))

EvRank(e) ==
    CASE e.ev = "insertOperatorType" -> 1
      [] e.ev = "insertOperation" -> 2
      [] OTHER -> 3

\* C10: loadProblem inserts every operator type, then every operation in
\* document order, and resolves the first dependence record only after the
\* last operation is inserted; the Problem's operation order is the
\* document's, and a record naming an operation declared later resolves to
\* that operation as one naming an earlier operation does.
C10_LoadOrder ==
    /\ \A q \in 2..Len(trace) : EvRank(trace[q - 1]) <= EvRank(trace[q])
    /\ (trace # <<>> /\ EvRank(trace[Len(trace)]) >= 2) =>
          prob.operatorTypes = [t \in 1..Len(instOp.oprs) |-> instOp.oprs[t].name]
    /\ (trace # <<>> /\ EvRank(trace[Len(trace)]) = 3) =>
          prob.operations = [k \in 1..Len(instOp.ops) |-> k]
    /\ \A q \in 1..Len(trace) :
          trace[q].ev = "auxRecord" =>
             LET r == instOp.ops[trace[q].op].dependences.items[trace[q].rec] IN
             \A h \in 1..Len(instOp.ops) :
                 instOp.ops[h].symName = r.sourceRef => trace[q].src = h
    /\ (phase = "load" /\ ld.stage = "returned") =>
          /\ prob.operations = [k \in 1..Len(instOp.ops) |-> k]
          /\ \A i \in 1..Len(instOp.ops) : \A j \in 1..Len(RecsOf(instOp.ops[i].dependences)) :
                LET r == instOp.ops[i].dependences.items[j] IN
                \A h \in 1..Len(instOp.ops) :
                    (r.sourceRef # NoSym /\ instOp.ops[h].symName = r.sourceRef)
                        => Contains(AuxOf(prob, i), h)

C10_Witness ==
    /\ phase = "load"
    /\ ld.stage = "returned"
    /\ \E h \in Handles : h > 1 /\ Contains(AuxOf(prob, 1), h)
    /\ \E h \in Handles : h < MaxOps /\ Contains(AuxOf(prob, MaxOps), h)

====
